---- MODULE Spec2Model ----
(***************************************************************************)
(* Model of packages/sewing-kit-koa/src/assets.ts: the Assets resolver,    *)
(* the module-level consolidatedManifestPromise cache, and the asynchronous *)
(* steps of scripts()/styles() around the shared manifest read.            *)
(***************************************************************************)
EXTENDS Integers, Sequences, FiniteSets, TLC

\* ------------------------------------------------------------------ bounds
NumResolvers == 2
MaxCalls == 2
MaxClears == 1
MaxEntries == 3

\* The identities an Assets instance can have, in order of construction.
Resolvers == 1..NumResolvers

\* ------------------------------------------------------------- data model
\* An Asset is a record [path |-> string]; an Entrypoint has js and css lists.
\* A Manifest keeps its entrypoints as an ordered list of keyed entries, the
\* way a parsed JSON object keeps its own keys in insertion order.
Asset(p) == [path |-> p]

Entry(k, js, css) == [key |-> k, js |-> js, css |-> css]

MkManifest(tag) ==
    [entrypoints |->
        << Entry("main", <<Asset(tag \o "/main.js")>>, <<Asset(tag \o "/main.css")>>),
           Entry("other", <<Asset(tag \o "/other.js"), Asset(tag \o "/shared.js")>>, <<>>) >>]

NoEntrypoints(tag) == [entrypoints |-> <<>>, tag |-> tag]

\* A ConsolidatedManifestEntry with and without the optional browsers field.
Restricted(n, browsers, m) == [name |-> n, browsers |-> browsers, manifest |-> m]
Universal(n, m) == [name |-> n, manifest |-> m]

\* The userAgent option absent (undefined).
NoUA == "undefined"
UserAgents == {"chrome", "firefox", "safari"}

\* File contents: a JSON document holding a ConsolidatedManifest, or bytes that
\* readJson cannot parse.
Json(cm) == [kind |-> "json", value |-> cm]
Garbage == [kind |-> "garbage"]

FileEmpty == Json(<<>>)
FileA == Json(<< Restricted("modern", <<"chrome">>, MkManifest("a1")),
                 Universal("legacy", MkManifest("a2")) >>)
FileB == Json(<< Restricted("modern", <<"firefox">>, MkManifest("b1")),
                 Restricted("legacy", <<"chrome">>, NoEntrypoints("b2")) >>)

Files == {FileEmpty, FileA, FileB, Garbage}

\* Files for the selection rule: every list of up to MaxEntries entries whose
\* browsers field is absent, empty, or names one or two browser families.  The
\* entry at position i carries the manifest tagged i.
BrowserChoices == {<<>>, <<"chrome">>, <<"firefox">>, <<"firefox", "chrome">>}

EntryChoices(i) ==
    {Universal("build", MkManifest(<<"0", "1", "2", "3", "4", "5">>[i + 1]))}
    \cup {Restricted("build", b, MkManifest(<<"0", "1", "2", "3", "4", "5">>[i + 1])) :
            b \in BrowserChoices}

RECURSIVE ManifestsOfLen(_)
ManifestsOfLen(n) ==
    IF n = 0 THEN {<<>>}
    ELSE {Append(cm, e) : cm \in ManifestsOfLen(n - 1), e \in EntryChoices(n)}

SelectFiles == {Json(cm) : cm \in UNION {ManifestsOfLen(n) : n \in 0..MaxEntries}}

\* ------------------------------------------------------------------ state
VARIABLES
    disk,                          \* the contents of build/client/assets.json
    nodeEnv,                       \* process.env.NODE_ENV
    consolidatedManifestPromise,   \* 0 (null) or the index of a read in reads
    reads,                         \* every readJson promise created so far
    userAgent,                     \* per constructed instance: this.userAgent
    resolvedManifest,              \* per instance: <<>> (unset) or <<manifest>>
    calls,                         \* every scripts()/styles() invocation so far
    nclears,                       \* number of internalOnlyClearCache() calls
    nresolved                      \* per instance: assignments to this.resolvedManifest

vars == <<disk, nodeEnv, consolidatedManifestPromise, reads, userAgent,
          resolvedManifest, calls, nclears, nresolved>>

\* The assetHost option of each instance.
assetHost == [r \in Resolvers |-> "https://cdn" \o <<"0", "1", "2", "3", "4">>[r + 1] \o "/"]

\* ------------------------------------------------------- pure operations
\* readJson: the parsed document, or the failure of the underlying read.
readJson(file) ==
    IF file.kind = "json"
    THEN [state |-> "fulfilled", value |-> file.value]
    ELSE [state |-> "rejected", value |-> <<>>]

\* A readJson promise: its state and value, and, once settled, how many times
\* internalOnlyClearCache had been called when it settled.
Pending == [state |-> "pending", value |-> <<>>, at |-> 0]
Settle(rd) == [state |-> rd.state, value |-> rd.value, at |-> nclears]

\* matchesUA(userAgent, {browsers, ...}): an opaque predicate of the
\* browserslist-useragent library, modelled as the user agent's family being
\* one of the listed browsers.
matchesUA(ua, browsers) == \E i \in 1..Len(browsers) : browsers[i] = ua

\* The predicate handed to Array.prototype.find.
EntryMatches(entry, ua) ==
    \/ "browsers" \notin DOMAIN entry
    \/ matchesUA(ua, entry.browsers)

\* (Variant: the last matching element instead of the first.)
RECURSIVE findLastMatch(_, _, _)
findLastMatch(cm, ua, i) ==
    IF i > Len(cm) THEN <<>>
    ELSE LET later == findLastMatch(cm, ua, i + 1)
         IN  IF later # <<>> THEN later
             ELSE IF EntryMatches(cm[i], ua) THEN <<cm[i]>>
             ELSE <<>>

\* Array.prototype.find from index i on: <<element>> or <<>> (undefined).
RECURSIVE find(_, _, _)
find(cm, ua, i) ==
    IF i > Len(cm) THEN <<>>
    ELSE IF EntryMatches(cm[i], ua) THEN <<cm[i]>>
    ELSE find(cm, ua, i + 1)

\* (Variant: the first entry taken for the fallback.)
firstManifestEntry(cm) == cm[1]

\* consolidatedManifest[consolidatedManifest.length - 1]
lastManifestEntry(cm) == cm[Len(cm)]

\* (Variant: the absent user agent is not special-cased.)
SelectIgnoringNoUA(cm, ua) ==
    IF Len(cm) = 1
    THEN lastManifestEntry(cm).manifest
    ELSE LET found == find(cm, ua, 1)
         IN  IF found # <<>> THEN found[1].manifest
             ELSE lastManifestEntry(cm).manifest

\* The selection of getResolvedManifest for a non-empty consolidated manifest.
SelectManifest(cm, ua) ==
    IF ua = NoUA \/ Len(cm) = 1
    THEN lastManifestEntry(cm).manifest
    ELSE LET found == find(cm, ua, 1)
         IN  IF found # <<>> THEN found[1].manifest
             ELSE lastManifestEntry(cm).manifest

\* Object.keys(entrypoints) and entrypoints.hasOwnProperty(name).  A manifest
\* lists its entrypoints in the order Object.keys yields them; no entrypoint is
\* named after a member of Object.prototype.
Keys(m) == [i \in 1..Len(m.entrypoints) |-> m.entrypoints[i].key]
HasOwnProperty(m, name) == \E i \in 1..Len(m.entrypoints) : m.entrypoints[i].key = name

RECURSIVE JoinFrom(_, _, _)
JoinFrom(s, sep, i) ==
    IF i > Len(s) THEN ""
    ELSE IF i = Len(s) THEN s[i]
    ELSE s[i] \o sep \o JoinFrom(s, sep, i + 1)

Join(s, sep) == JoinFrom(s, sep, 1)

Failure(msg) == [ok |-> FALSE, error |-> msg]
Success(v) == [ok |-> TRUE, value |-> v]

\* (Variant: a name that is not found falls back to the first entrypoint.)
getAssetsOrFirst(name, m) ==
    IF ~HasOwnProperty(m, name)
    THEN LET entries == Keys(m)
         IN  IF Len(entries) = 0 THEN Failure("No entrypoints exist.")
             ELSE Success(m.entrypoints[1])
    ELSE LET i == CHOOSE i \in 1..Len(m.entrypoints) : m.entrypoints[i].key = name
         IN  Success(m.entrypoints[i])

getAssetsForEntrypoint(name, m) ==
    IF ~HasOwnProperty(m, name)
    THEN LET entries == Keys(m)
             guidance ==
                 IF Len(entries) = 0 THEN "No entrypoints exist."
                 ELSE "No entrypoints found with the name '" \o name
                      \o "'. Available entrypoints: " \o Join(entries, ", ")
         IN  Failure(guidance)
    ELSE LET i == CHOOSE i \in 1..Len(m.entrypoints) : m.entrypoints[i].key = name
         IN  Success(m.entrypoints[i])

\* ------------------------------------------------------------ call records
\* A scripts()/styles() invocation.  pc is where the async function stands:
\*   "awaitLoad"      suspended in getResolvedManifest at
\*                    `await loadConsolidatedManifest()`, on read p;
\*   "awaitManifest"  suspended at `await this.getResolvedManifest()`, whose
\*                    promise has settled with res;
\*   "done"           the returned promise has settled with out.
\* started tells whether this call created read p, epoch how many times
\* internalOnlyClearCache had been called when the call was made, env what
\* process.env.NODE_ENV was when the call was made.
NewCall(r, kind, name, pc, p, started, res) ==
    [inst |-> r, kind |-> kind, name |-> name, pc |-> pc, p |-> p,
     started |-> started, epoch |-> nclears, env |-> nodeEnv, res |-> res,
     out |-> <<>>]

Undefined == "undefined"
\* The default of the destructured parameter: {name = 'main'} = {}.
NameOrDefault(n) == IF n = Undefined THEN "main" ELSE n

\* ----------------------------------------------------- module-level cache
\* loadConsolidatedManifest(): the promise returned, the value the cache holds
\* afterwards and the promises existing afterwards.  A new readJson promise is
\* created, and stored in the cache, only when the cache is null.
\* (Variant: the cache is never consulted.)
loadAlwaysReads ==
    [promise |-> Len(reads) + 1, cache |-> Len(reads) + 1,
     reads |-> Append(reads, Pending)]

\* (Variant: the new promise is returned but not stored.)
loadForgetsCache ==
    IF consolidatedManifestPromise # 0
    THEN [promise |-> consolidatedManifestPromise,
          cache |-> consolidatedManifestPromise, reads |-> reads]
    ELSE [promise |-> Len(reads) + 1, cache |-> 0,
          reads |-> Append(reads, Pending)]

\* (Variant: a cached promise that has rejected is replaced by a new read.)
loadRetriesRejected ==
    IF consolidatedManifestPromise # 0
       /\ reads[consolidatedManifestPromise].state # "rejected"
    THEN [promise |-> consolidatedManifestPromise,
          cache |-> consolidatedManifestPromise, reads |-> reads]
    ELSE [promise |-> Len(reads) + 1, cache |-> Len(reads) + 1,
          reads |-> Append(reads, Pending)]

loadConsolidatedManifest ==
    IF consolidatedManifestPromise # 0
    THEN [promise |-> consolidatedManifestPromise,
          cache |-> consolidatedManifestPromise, reads |-> reads]
    ELSE [promise |-> Len(reads) + 1, cache |-> Len(reads) + 1,
          reads |-> Append(reads, Pending)]

\* (Variant: the hook leaves the cached promise in place.)
clearKeepsPromise ==
    /\ nclears < MaxClears
    /\ nclears' = nclears + 1
    /\ UNCHANGED <<disk, nodeEnv, consolidatedManifestPromise, reads, userAgent,
                   resolvedManifest, calls, nresolved>>

\* (Variant: the hook also resets every instance's resolved manifest.)
clearEveryCache ==
    /\ nclears < MaxClears
    /\ consolidatedManifestPromise' = 0
    /\ nclears' = nclears + 1
    /\ resolvedManifest' = [r \in 1..Len(resolvedManifest) |-> <<>>]
    /\ UNCHANGED <<disk, nodeEnv, reads, userAgent, calls, nresolved>>

\* internalOnlyClearCache(): the cache is set to null.  The calls are counted,
\* up to MaxClears.
internalOnlyClearCache ==
    /\ nclears < MaxClears
    /\ consolidatedManifestPromise' = 0
    /\ nclears' = nclears + 1
    /\ UNCHANGED <<disk, nodeEnv, reads, userAgent, resolvedManifest, calls, nresolved>>

\* ------------------------------------------------------------- the resolver
\* new Assets({assetHost, userAgent}): the next instance, nothing resolved.
\* Construction touches no shared state, so instances are numbered in the
\* order of their first call: the next one is constructed once every earlier
\* one has been used.
Construct(ua) ==
    /\ Len(userAgent) < NumResolvers
    /\ \A r \in 1..Len(userAgent) : \E c \in 1..Len(calls) : calls[c].inst = r
    /\ userAgent' = Append(userAgent, ua)
    /\ resolvedManifest' = Append(resolvedManifest, <<>>)
    /\ nresolved' = Append(nresolved, 0)
    /\ UNCHANGED <<disk, nodeEnv, consolidatedManifestPromise, reads, calls, nclears>>

\* The guard at the top of getResolvedManifest: this.resolvedManifest is set.
HasResolvedManifest(r) == resolvedManifest[r] # <<>>

\* scripts(...)/styles(...) up to the first suspension: getResolvedManifest
\* returns the cached manifest, or calls loadConsolidatedManifest and awaits.
StartCall(r, kind, n) ==
    /\ r \in 1..Len(userAgent)
    /\ Len(calls) < MaxCalls
    /\ IF HasResolvedManifest(r)
       THEN /\ calls' = Append(calls,
                   NewCall(r, kind, NameOrDefault(n), "awaitManifest", 0, FALSE,
                           <<Success(resolvedManifest[r][1])>>))
            /\ UNCHANGED <<consolidatedManifestPromise, reads>>
       ELSE LET l == loadConsolidatedManifest
            IN  /\ consolidatedManifestPromise' = l.cache
                /\ reads' = l.reads
                /\ calls' = Append(calls,
                       NewCall(r, kind, NameOrDefault(n), "awaitLoad", l.promise,
                               l.promise > Len(reads), <<>>))
    /\ UNCHANGED <<disk, nodeEnv, userAgent, resolvedManifest, nclears, nresolved>>

\* (Variant: the settled promise is stored in the cache again.)
ReadCompleteStores(p) ==
    /\ p \in 1..Len(reads)
    /\ reads[p].state = "pending"
    /\ reads' = [reads EXCEPT ![p] = Settle(readJson(disk))]
    /\ consolidatedManifestPromise' = p
    /\ UNCHANGED <<disk, nodeEnv, userAgent, resolvedManifest, calls, nclears, nresolved>>

\* The readJson promise p settles with what is on disk.
ReadComplete(p) ==
    /\ p \in 1..Len(reads)
    /\ reads[p].state = "pending"
    /\ reads' = [reads EXCEPT ![p] = Settle(readJson(disk))]
    /\ UNCHANGED <<disk, nodeEnv, consolidatedManifestPromise, userAgent,
                   resolvedManifest, calls, nclears, nresolved>>

\* getResolvedManifest after `await loadConsolidatedManifest()`: the outcome
\* for instance r of a settled read rd, as [res, resolved], resolved being the
\* new value of this.resolvedManifest.
\* (Variant: a single build counted as none.)
AfterLoadOffByOne(r, rd) ==
    IF rd.state = "rejected"
    THEN [res |-> Failure("readJson failed"), resolved |-> resolvedManifest[r], wrote |-> 0]
    ELSE IF Len(rd.value) <= 1
    THEN [res |-> Failure("No builds were found."), resolved |-> resolvedManifest[r], wrote |-> 0]
    ELSE LET m == SelectManifest(rd.value, userAgent[r])
         IN  [res |-> Success(m), resolved |-> <<m>>, wrote |-> 1]

\* (Variant: the emptiness check is missing and the last entry, undefined, is
\* dereferenced.)
AfterLoadNoEmptyCheck(r, rd) ==
    IF rd.state = "rejected"
    THEN [res |-> Failure("readJson failed"), resolved |-> resolvedManifest[r], wrote |-> 0]
    ELSE IF Len(rd.value) = 0
    THEN [res |-> Failure("Cannot read property 'manifest' of undefined"),
          resolved |-> resolvedManifest[r], wrote |-> 0]
    ELSE LET m == SelectManifest(rd.value, userAgent[r])
         IN  [res |-> Success(m), resolved |-> <<m>>, wrote |-> 1]

AfterLoad(r, rd) ==
    IF rd.state = "rejected"
    THEN [res |-> Failure("readJson failed"), resolved |-> resolvedManifest[r], wrote |-> 0]
    ELSE IF Len(rd.value) = 0
    THEN [res |-> Failure("No builds were found."), resolved |-> resolvedManifest[r], wrote |-> 0]
    ELSE LET m == SelectManifest(rd.value, userAgent[r])
         IN  [res |-> Success(m), resolved |-> <<m>>, wrote |-> 1]

\* (Variant: the continuation runs only when the read has fulfilled; a
\* rejection is never delivered.)
ResumeOnFulfilment(c) ==
    /\ c \in 1..Len(calls)
    /\ calls[c].pc = "awaitLoad"
    /\ reads[calls[c].p].state = "fulfilled"
    /\ LET r == calls[c].inst
           a == AfterLoad(r, reads[calls[c].p])
       IN  /\ resolvedManifest' = [resolvedManifest EXCEPT ![r] = a.resolved]
           /\ nresolved' = [nresolved EXCEPT ![r] = @ + a.wrote]
           /\ calls' = [calls EXCEPT ![c].pc = "awaitManifest", ![c].res = <<a.res>>]
    /\ UNCHANGED <<disk, nodeEnv, consolidatedManifestPromise, reads, userAgent, nclears>>

\* The continuation of getResolvedManifest once the awaited read has settled.
ResumeResolve(c) ==
    /\ c \in 1..Len(calls)
    /\ calls[c].pc = "awaitLoad"
    /\ reads[calls[c].p].state # "pending"
    /\ LET r == calls[c].inst
           a == AfterLoad(r, reads[calls[c].p])
       IN  /\ resolvedManifest' = [resolvedManifest EXCEPT ![r] = a.resolved]
           /\ nresolved' = [nresolved EXCEPT ![r] = @ + a.wrote]
           /\ calls' = [calls EXCEPT ![c].pc = "awaitManifest", ![c].res = <<a.res>>]
    /\ UNCHANGED <<disk, nodeEnv, consolidatedManifestPromise, reads, userAgent, nclears>>

\* (Variant: the vendor DLL is added after the entrypoint's own scripts.)
scriptsVendorLast(r, name, m) ==
    LET e == getAssetsForEntrypoint(name, m)
    IN  IF ~e.ok THEN e
        ELSE Success(IF nodeEnv = "development"
                     THEN e.value.js \o <<Asset(assetHost[r] \o "dll/vendor.js")>>
                     ELSE e.value.js)

\* scripts() after `await this.getResolvedManifest()` yielded manifest m.
scripts(r, name, m) ==
    LET e == getAssetsForEntrypoint(name, m)
    IN  IF ~e.ok THEN e
        ELSE Success(IF nodeEnv = "development"
                     THEN <<Asset(assetHost[r] \o "dll/vendor.js")>> \o e.value.js
                     ELSE e.value.js)

\* styles() after `await this.getResolvedManifest()` yielded manifest m.
styles(r, name, m) ==
    LET e == getAssetsForEntrypoint(name, m)
    IN  IF ~e.ok THEN e ELSE Success(e.value.css)

\* (Variant: the vendor DLL is unshifted into the cached js list itself.)
FinishCallUnshift(c) ==
    /\ c \in 1..Len(calls)
    /\ calls[c].pc = "awaitManifest"
    /\ LET k == calls[c]
           res == k.res[1]
           out == IF ~res.ok THEN res
                  ELSE IF k.kind = "scripts" THEN scripts(k.inst, k.name, res.value)
                  ELSE styles(k.inst, k.name, res.value)
           m == res.value
           hit == {i \in 1..Len(m.entrypoints) : m.entrypoints[i].key = k.name}
       IN  /\ calls' = [calls EXCEPT ![c].pc = "done", ![c].out = <<out>>]
           /\ resolvedManifest' =
                  IF res.ok /\ k.kind = "scripts" /\ nodeEnv = "development" /\ hit # {}
                  THEN [resolvedManifest EXCEPT ![k.inst] =
                           <<[m EXCEPT !.entrypoints =
                                 [i \in 1..Len(m.entrypoints) |->
                                     IF i \in hit
                                     THEN [m.entrypoints[i] EXCEPT !.js = out.value]
                                     ELSE m.entrypoints[i]]]>>]
                  ELSE resolvedManifest
    /\ UNCHANGED <<disk, nodeEnv, consolidatedManifestPromise, reads, userAgent,
                   nclears, nresolved>>

\* The continuation of scripts()/styles(): a rejection of getResolvedManifest
\* propagates, otherwise the entrypoint is looked up and the list returned.
FinishCall(c) ==
    /\ c \in 1..Len(calls)
    /\ calls[c].pc = "awaitManifest"
    /\ LET k == calls[c]
           res == k.res[1]
           out == IF ~res.ok THEN res
                  ELSE IF k.kind = "scripts" THEN scripts(k.inst, k.name, res.value)
                  ELSE styles(k.inst, k.name, res.value)
       IN  calls' = [calls EXCEPT ![c].pc = "done", ![c].out = <<out>>]
    /\ UNCHANGED <<disk, nodeEnv, consolidatedManifestPromise, reads, userAgent,
                   resolvedManifest, nclears, nresolved>>

\* ------------------------------------------------------------ environment
\* The build pipeline rewrites build/client/assets.json.
ChangeFile(f) ==
    /\ f # disk
    /\ disk' = f
    /\ UNCHANGED <<nodeEnv, consolidatedManifestPromise, reads, userAgent,
                   resolvedManifest, calls, nclears, nresolved>>

\* process.env.NODE_ENV is assigned.
SetNodeEnv(v) ==
    /\ v # nodeEnv
    /\ nodeEnv' = v
    /\ UNCHANGED <<disk, consolidatedManifestPromise, reads, userAgent,
                   resolvedManifest, calls, nclears, nresolved>>

\* --------------------------------------------------------- specifications
\* The state after the module is loaded: no instance, no read, the cache null.
InitWith(files, envs) ==
    /\ disk \in files
    /\ nodeEnv \in envs
    /\ consolidatedManifestPromise = 0
    /\ reads = <<>>
    /\ userAgent = <<>>
    /\ resolvedManifest = <<>>
    /\ calls = <<>>
    /\ nclears = 0
    /\ nresolved = <<>>

\* Spec: the interleavings of calls, the shared read, invalidation and file
\* changes.  Instances are constructed alternately with and without a user
\* agent; the calls are alternately scripts() and styles(), on any instance,
\* for the default entrypoint, in production.
Init == InitWith(Files, {"production"})

NextAgent == IF Len(userAgent) % 2 = 0 THEN "chrome" ELSE NoUA
NextKind == IF Len(calls) % 2 = 0 THEN "scripts" ELSE "styles"

Next ==
    \/ Construct(NextAgent)
    \/ \E r \in Resolvers : StartCall(r, NextKind, Undefined)
    \/ \E p \in 1..Len(reads) : ReadComplete(p)
    \/ \E c \in 1..Len(calls) : ResumeResolve(c)
    \/ \E c \in 1..Len(calls) : FinishCall(c)
    \/ internalOnlyClearCache
    \/ \E f \in Files : ChangeFile(f)

Spec == Init /\ [][Next]_vars

\* The file contents of SpecLive.
LiveFiles == {FileA, Garbage}

\* SpecLive: the interleavings of Spec over a file that is either a manifest
\* or unparsable, where every started read eventually settles and the event
\* loop eventually runs the continuation of an await whose promise has
\* settled.  Calls, hook calls and file changes remain unforced.
InitLive == InitWith(LiveFiles, {"production"})

NextLive ==
    \/ Construct(NextAgent)
    \/ \E r \in 1..Len(userAgent) : StartCall(r, NextKind, Undefined)
    \/ \E p \in 1..Len(reads) : ReadComplete(p)
    \/ \E c \in 1..Len(calls) : ResumeResolve(c)
    \/ \E c \in 1..Len(calls) : FinishCall(c)
    \/ internalOnlyClearCache
    \/ \E f \in LiveFiles : ChangeFile(f)

SpecLive ==
    /\ InitLive /\ [][NextLive]_vars
    /\ \A p \in 1..MaxCalls : WF_vars(ReadComplete(p))
    /\ \A c \in 1..MaxCalls : WF_vars(ResumeResolve(c))
    /\ \A c \in 1..MaxCalls : WF_vars(FinishCall(c))

\* SpecSelect: one instance making one call, over every consolidated manifest
\* of up to MaxEntries entries and every user agent option.
InitSelect == InitWith(SelectFiles, {"production"})

NextSelect ==
    \/ \E ua \in UserAgents \cup {NoUA} : Len(userAgent) = 0 /\ Construct(ua)
    \/ \E kind \in {"scripts", "styles"} : Len(calls) = 0 /\ StartCall(1, kind, Undefined)
    \/ \E p \in 1..Len(reads) : ReadComplete(p)
    \/ \E c \in 1..Len(calls) : ResumeResolve(c)
    \/ \E c \in 1..Len(calls) : FinishCall(c)

SpecSelect == InitSelect /\ [][NextSelect]_vars

\* SpecAssets: one instance answering scripts() and styles() for present and
\* missing entrypoint names while process.env.NODE_ENV is switched.
InitAssets == InitWith({FileEmpty, FileA, FileB}, {"production", "development"})

NextAssets ==
    \/ \E ua \in {NoUA, "chrome"} : Len(userAgent) = 0 /\ Construct(ua)
    \/ \E kind \in {"scripts", "styles"}, n \in {Undefined, "other", "missing"} :
           StartCall(1, kind, n)
    \/ \E p \in 1..Len(reads) : ReadComplete(p)
    \/ \E c \in 1..Len(calls) : ResumeResolve(c)
    \/ \E c \in 1..Len(calls) : FinishCall(c)
    \/ \E v \in {"production", "development"} : SetNodeEnv(v)

SpecAssets == InitAssets /\ [][NextAssets]_vars

\* ------------------------------------------------------ claims: vocabulary
Calls == 1..Len(calls)
Reads == 1..Len(reads)

\* The call has got past getResolvedManifest (its promise has settled).
Settled(c) == calls[c].res # <<>>

\* What getResolvedManifest must yield for user agent ua from a settled read:
\* the read's failure, the empty-manifest error, or the selected manifest.
Expected(rd, ua) ==
    IF rd.state = "rejected" THEN Failure("readJson failed")
    ELSE IF rd.value = <<>> THEN Failure("No builds were found.")
    ELSE Success(SelectManifest(rd.value, ua))

PendingReads == {p \in Reads : reads[p].state = "pending"}

\* The step starts a call (calls grows by the record of the new call).
CallStarts == Len(calls') = Len(calls) + 1
NewestCall == calls'[Len(calls')]

\* ------------------------------------------------------------------- C1
\* C1: while internalOnlyClearCache has never been called, the calls made so
\* far, by however many instances and however interleaved with the read's
\* completion, have started exactly one read of the manifest file, every call
\* waits on that read, and every call that got its manifest got the one
\* selected from that read's result (or that read's failure).
C1_SingleFlight ==
    nclears = 0 =>
        /\ Len(reads) = (IF Len(calls) = 0 THEN 0 ELSE 1)
        /\ \A c \in Calls :
               /\ Settled(c) => reads[1].state # "pending"
               /\ Settled(c) => calls[c].res[1] = Expected(reads[1], userAgent[calls[c].inst])

\* Two instances have each been served from the one read, the second having
\* joined the read the first started.
C1_Witness ==
    /\ nclears = 0
    /\ Len(reads) = 1
    /\ \E c, d \in Calls :
           /\ calls[c].inst # calls[d].inst
           /\ calls[c].started /\ ~calls[d].started /\ calls[d].p = 1
           /\ calls[c].pc = "done" /\ calls[d].pc = "done"
           /\ calls[c].res[1].ok /\ calls[d].res[1].ok

\* ------------------------------------------------------------------- C2
\* C2 (as claimed): in every reachable state at most one read of the manifest
\* file is in flight.
C2_AtMostOneInFlight == Cardinality(PendingReads) <= 1

\* C2 (amended): between two consecutive calls of internalOnlyClearCache (and
\* before the first) at most one read is started, and a call that needs the
\* consolidated manifest while that read exists joins it, whichever instance
\* makes it; so the reads in flight are at most one more than the hook calls
\* made so far, and exactly the newest read can be the cached one.
C2_InFlightBound ==
    /\ Cardinality(PendingReads) <= 1 + nclears
    /\ consolidatedManifestPromise \in {0, Len(reads)}
    /\ \A c, d \in Calls :
           (c # d /\ calls[c].started /\ calls[d].started) =>
               calls[c].epoch # calls[d].epoch
    /\ \A c \in Calls : (calls[c].p # 0 /\ ~calls[c].started) =>
           \E d \in 1..(c - 1) :
               /\ calls[d].p = calls[c].p
               /\ calls[d].started
               /\ calls[d].epoch = calls[c].epoch

\* Two instances wait on the same read in flight, and it is the only read.
C2_Witness ==
    /\ Len(reads) = 1
    /\ reads[1].state = "pending"
    /\ \E c, d \in Calls :
           /\ calls[c].inst # calls[d].inst
           /\ calls[c].pc = "awaitLoad" /\ calls[d].pc = "awaitLoad"
           /\ calls[c].p = 1 /\ calls[d].p = 1

\* ------------------------------------------------------------------- C3
\* C3: the number of reads started is at most one plus the number of
\* internalOnlyClearCache calls made so far.
C3_LoadedOncePerInvalidation == Len(reads) <= 1 + nclears

\* A second read has been started, after one invalidation.
C3_Witness ==
    /\ nclears = 1
    /\ Len(reads) = 2
    /\ \E c \in Calls : calls[c].p = 2 /\ calls[c].started

\* ------------------------------------------------------------------- C4
\* C4: each instance executes the selection and writes this.resolvedManifest
\* at most once, also when two of its calls were started before the read
\* completed.
C4_ResolvedAtMostOnce == \A r \in 1..Len(nresolved) : nresolved[r] <= 1

\* ---------------------------------------------------- C5-C8: the selection
\* An entry is universal or its browsers match the user agent.
Satisfies(e, ua) == "browsers" \notin DOMAIN e \/ matchesUA(ua, e.browsers)

\* The call got its manifest from a read that yielded a non-empty document.
Selected(c) ==
    /\ Settled(c)
    /\ calls[c].p # 0
    /\ reads[calls[c].p].state = "fulfilled"
    /\ reads[calls[c].p].value # <<>>

Document(c) == reads[calls[c].p].value
Agent(c) == userAgent[calls[c].inst]

\* C5: with two or more entries and a user agent supplied, the manifest
\* resolved is that of the first entry, in the document's order, that is
\* universal or matches the user agent.
C5_FirstMatchWins ==
    \A c \in Calls :
        (Selected(c) /\ Len(Document(c)) >= 2 /\ Agent(c) # NoUA) =>
            \A i \in 1..Len(Document(c)) :
                (/\ Satisfies(Document(c)[i], Agent(c))
                 /\ \A j \in 1..(i - 1) : ~Satisfies(Document(c)[j], Agent(c))) =>
                    /\ calls[c].res[1] = Success(Document(c)[i].manifest)
                    /\ resolvedManifest[calls[c].inst] = <<Document(c)[i].manifest>>

\* The first entry does not match, the second and the third both do, and the
\* call has resolved.
C5_Witness ==
    \E c \in Calls :
        /\ Selected(c) /\ Len(Document(c)) >= 3 /\ Agent(c) # NoUA
        /\ ~Satisfies(Document(c)[1], Agent(c))
        /\ Satisfies(Document(c)[2], Agent(c))
        /\ Satisfies(Document(c)[3], Agent(c))
        /\ "browsers" \in DOMAIN Document(c)[2]
        /\ calls[c].pc = "done"

\* C6: with two or more entries, a user agent supplied and no entry universal
\* or matching, the manifest resolved is the last entry's.
C6_FallbackToLast ==
    \A c \in Calls :
        (/\ Selected(c) /\ Len(Document(c)) >= 2 /\ Agent(c) # NoUA
         /\ \A i \in 1..Len(Document(c)) : ~Satisfies(Document(c)[i], Agent(c))) =>
            /\ calls[c].res[1] = Success(Document(c)[Len(Document(c))].manifest)
            /\ resolvedManifest[calls[c].inst] = <<Document(c)[Len(Document(c))].manifest>>

\* A call has resolved against a document of several entries none of which
\* matches its user agent.
C6_Witness ==
    \E c \in Calls :
        /\ Selected(c) /\ Len(Document(c)) >= 2 /\ Agent(c) # NoUA
        /\ \A i \in 1..Len(Document(c)) : ~Satisfies(Document(c)[i], Agent(c))
        /\ calls[c].pc = "done"

\* The js or css list of the entrypoint main of manifest m.
MainAssets(kind, m) ==
    LET e == CHOOSE e \in {m.entrypoints[i] : i \in 1..Len(m.entrypoints)} : e.key = "main"
    IN  IF kind = "scripts" THEN e.js ELSE e.css

\* C7: with exactly one entry, scripts and styles use that entry's manifest,
\* with or without a user agent and whether or not its browsers match.
C7_SingleEntryAlwaysUsed ==
    \A c \in Calls :
        (/\ calls[c].p # 0
         /\ reads[calls[c].p].state = "fulfilled"
         /\ Len(reads[calls[c].p].value) = 1
         /\ calls[c].pc # "awaitLoad") =>
            /\ calls[c].res[1] = Success(Document(c)[1].manifest)
            /\ calls[c].pc = "done" =>
                   calls[c].out[1] = Success(MainAssets(calls[c].kind, Document(c)[1].manifest))

\* A call by an instance with a user agent has returned the assets of the only
\* entry, whose browsers do not match that user agent.
C7_Witness ==
    \E c \in Calls :
        /\ Selected(c) /\ Len(Document(c)) = 1 /\ Agent(c) # NoUA
        /\ ~Satisfies(Document(c)[1], Agent(c))
        /\ calls[c].pc = "done" /\ calls[c].out[1].ok

\* C8: with two or more entries and no user agent, the last entry's manifest
\* is resolved, even when an earlier entry is universal.
C8_NoUserAgentTakesLast ==
    \A c \in Calls :
        (Selected(c) /\ Len(Document(c)) >= 2 /\ Agent(c) = NoUA) =>
            /\ calls[c].res[1] = Success(Document(c)[Len(Document(c))].manifest)
            /\ resolvedManifest[calls[c].inst] = <<Document(c)[Len(Document(c))].manifest>>

\* A call without user agent has resolved against a document whose first
\* entry is universal and whose last entry is restricted.
C8_Witness ==
    \E c \in Calls :
        /\ Selected(c) /\ Len(Document(c)) >= 2 /\ Agent(c) = NoUA
        /\ "browsers" \notin DOMAIN Document(c)[1]
        /\ "browsers" \in DOMAIN Document(c)[Len(Document(c))]
        /\ calls[c].pc = "done"

\* ------------------------------------------------------------------- C9
\* The step is a call of internalOnlyClearCache.
HookCalled == nclears' # nclears

\* C9: internalOnlyClearCache changes the module-level cache and nothing
\* else, so an instance's resolved manifest is the same after it; a call made
\* on an instance that holds a resolved manifest starts no read and does not
\* touch the module-level cache, and what it returns is the default
\* entrypoint's list in that manifest (or that manifest's lookup error),
\* whatever the file on disk holds by then.
C9_HookLeavesInstances ==
    /\ [][HookCalled =>
            /\ consolidatedManifestPromise' = 0
            /\ UNCHANGED <<resolvedManifest, nresolved, userAgent, calls, reads, disk, nodeEnv>>]_vars
    /\ [][(CallStarts /\ resolvedManifest[NewestCall.inst] # <<>>) =>
            /\ UNCHANGED <<reads, consolidatedManifestPromise, resolvedManifest>>
            /\ NewestCall.p = 0
            /\ NewestCall.res = <<Success(resolvedManifest[NewestCall.inst][1])>>]_vars
    /\ [](\A c \in Calls : (calls[c].p = 0 /\ calls[c].pc = "done") =>
            /\ calls[c].res[1].ok
            /\ calls[c].out[1] =
                   (IF HasOwnProperty(calls[c].res[1].value, "main")
                    THEN Success(MainAssets(calls[c].kind, calls[c].res[1].value))
                    ELSE Failure("No entrypoints exist.")))

\* An instance resolved its manifest from the first read; after the hook was
\* called and the file changed, a call on it returned assets of that manifest
\* and no second read was started.
C9_Witness ==
    \E c, d \in Calls :
        /\ calls[c].inst = calls[d].inst
        /\ calls[c].p = 1 /\ calls[c].res # <<>> /\ calls[c].res[1].ok
        /\ calls[d].p = 0 /\ calls[d].epoch = 1 /\ calls[d].pc = "done"
        /\ calls[d].out[1].ok
        /\ calls[d].res = calls[c].res
        /\ resolvedManifest[calls[d].inst] = <<calls[d].res[1].value>>
        /\ Len(reads) = 1
        /\ reads[1].state = "fulfilled"
        /\ disk # Json(reads[1].value)

\* ------------------------------------------------------------------ C10
\* C10: internalOnlyClearCache leaves the module-level cache null; the next
\* call made by an instance that holds no resolved manifest then starts a new
\* read, which is in flight and becomes the cached one; a read yields what
\* the file holds when it completes, hence the contents written before the
\* call; and the call gets what getResolvedManifest makes of that read.  The
\* instance's earlier failures, the empty-manifest error included, do not
\* matter.
C10_InvalidationForcesReread ==
    /\ [][HookCalled => consolidatedManifestPromise' = 0]_vars
    /\ [][(CallStarts /\ consolidatedManifestPromise = 0
                      /\ resolvedManifest[NewestCall.inst] = <<>>) =>
            /\ Len(reads') = Len(reads) + 1
            /\ reads'[Len(reads')].state = "pending"
            /\ consolidatedManifestPromise' = Len(reads')
            /\ NewestCall.p = Len(reads')
            /\ NewestCall.started]_vars
    /\ [][\A p \in Reads : (reads[p].state = "pending" /\ reads'[p].state # "pending") =>
            reads'[p] = Settle(readJson(disk))]_vars
    /\ [](\A c \in Calls : (Settled(c) /\ calls[c].p # 0) =>
            calls[c].res[1] = Expected(reads[calls[c].p], userAgent[calls[c].inst]))

\* An instance's first call failed with the empty-manifest error; after the
\* hook was called and the file rewritten, its next call started the second
\* read and got a manifest from the new contents.
C10_Witness ==
    \E c, d \in Calls :
        /\ c < d
        /\ calls[c].inst = calls[d].inst
        /\ calls[c].pc = "done"
        /\ calls[c].out = <<Failure("No builds were found.")>>
        /\ calls[d].epoch = 1 /\ calls[d].started /\ calls[d].p = 2
        /\ calls[d].pc = "done" /\ calls[d].res[1].ok
        /\ reads[1].value = <<>> /\ reads[2].value # <<>>
        /\ resolvedManifest[calls[d].inst] = <<calls[d].res[1].value>>

\* ------------------------------------------------------------------ C11
\* The call waits, or waited, on a read that yielded the empty document.
OnEmptyRead(c) ==
    /\ calls[c].p # 0
    /\ reads[calls[c].p].state = "fulfilled"
    /\ reads[calls[c].p].value = <<>>

\* C11: when the read a call waits on yielded the empty sequence, the call
\* fails with 'No builds were found.', scripts or styles, with or without a
\* user agent, whatever the entrypoint name, and the step in which it fails
\* leaves this.resolvedManifest as it was (unset, as no other read exists).
C11_EmptyManifestFails ==
    /\ [](\A c \in Calls : OnEmptyRead(c) =>
            /\ Settled(c) => calls[c].res[1] = Failure("No builds were found.")
            /\ calls[c].pc = "done" => calls[c].out[1] = Failure("No builds were found.")
            /\ Len(reads) = 1 => resolvedManifest[calls[c].inst] = <<>>)
    /\ [][\A c \in Calls :
            (OnEmptyRead(c) /\ calls[c].pc = "awaitLoad" /\ calls'[c].pc # "awaitLoad") =>
                UNCHANGED <<resolvedManifest, nresolved>>]_vars

\* A styles() call and a scripts() call for different names have both failed
\* with the error on the empty document, the instance still unresolved.
C11_Witness ==
    \E c, d \in Calls :
        /\ OnEmptyRead(c) /\ OnEmptyRead(d)
        /\ calls[c].kind = "scripts" /\ calls[d].kind = "styles"
        /\ calls[c].name # calls[d].name
        /\ calls[c].pc = "done" /\ calls[d].pc = "done"
        /\ calls[c].out[1] = Failure("No builds were found.")
        /\ calls[d].out[1] = Failure("No builds were found.")
        /\ resolvedManifest[calls[c].inst] = <<>>

\* ------------------------------------------------------------------ C12
\* The call has finished and getResolvedManifest had given it a manifest.
Looked(c) == calls[c].pc = "done" /\ calls[c].res[1].ok

\* The names of the entrypoints of the manifest the call was given.
Names(c) == {calls[c].res[1].value.entrypoints[i].key :
                i \in 1..Len(calls[c].res[1].value.entrypoints)}

EntryOf(c) ==
    LET m == calls[c].res[1].value
    IN  m.entrypoints[CHOOSE i \in 1..Len(m.entrypoints) : m.entrypoints[i].key = calls[c].name]

\* The call is a scripts() call that found its entrypoint.
ScriptsFound(c) ==
    /\ calls[c].kind = "scripts"
    /\ Looked(c)
    /\ calls[c].name \in Names(c)

VendorAsset(r) == [path |-> assetHost[r] \o "dll/vendor.js"]

\* C13 (as claimed): a scripts() call for an existing entrypoint returns the
\* js list if process.env.NODE_ENV was not 'development' when the call was
\* made, and the vendor asset followed by the js list if it was.
C13_FlagWhenCalled ==
    \A c \in Calls : ScriptsFound(c) =>
        /\ calls[c].out[1].ok
        /\ calls[c].out[1].value =
               (IF calls[c].env = "development"
                THEN <<VendorAsset(calls[c].inst)>> \o EntryOf(c).js
                ELSE EntryOf(c).js)

\* C13 (amended): a scripts() call for an existing entrypoint returns the js
\* list if process.env.NODE_ENV is not 'development' in the step in which the
\* call resumes from awaiting the manifest and produces its result, and the
\* single vendor asset followed by the js list if it is.
C13_FlagWhenResumed ==
    [][\A c \in Calls :
        (calls[c].pc = "awaitManifest" /\ calls'[c].pc = "done"
            /\ calls[c].kind = "scripts" /\ calls[c].res[1].ok
            /\ calls[c].name \in Names(c)) =>
            /\ calls'[c].out[1].ok
            /\ nodeEnv # "development" => calls'[c].out[1].value = EntryOf(c).js
            /\ nodeEnv = "development" =>
                   /\ Len(calls'[c].out[1].value) = 1 + Len(EntryOf(c).js)
                   /\ calls'[c].out[1].value[1] = VendorAsset(calls[c].inst)
                   /\ Tail(calls'[c].out[1].value) = EntryOf(c).js]_vars

\* One scripts() call has returned the vendor asset and the two scripts of
\* 'other', another, on the same instance, the bare js list.
C13_Witness ==
    \E c, d \in Calls :
        /\ ScriptsFound(c) /\ ScriptsFound(d)
        /\ calls[c].inst = calls[d].inst
        /\ calls[c].name = "other"
        /\ Len(calls[c].out[1].value) = 3
        /\ calls[c].out[1].value[1] = VendorAsset(calls[c].inst)
        /\ calls[d].out[1].value = EntryOf(d).js

\* ------------------------------------------------------------------ C14
\* The manifests of the documents that reads have yielded.
Loaded ==
    UNION {{reads[p].value[i].manifest : i \in 1..Len(reads[p].value)} :
              p \in {q \in Reads : reads[q].state = "fulfilled"}}

\* How many times the vendor asset of instance r occurs in the list v.
VendorCount(r, v) == Cardinality({i \in 1..Len(v) : v[i] = VendorAsset(r)})

\* C14: the development-mode prepend changes no cached data.  Whatever the
\* sequence of scripts()/styles() calls and of changes of NODE_ENV between
\* them, a read's result stays what the read yielded, an instance's resolved
\* manifest is one of the loaded manifests, with its js and css lists as
\* loaded, the step that returns a list changes neither, and a scripts() call
\* returns the vendor asset exactly once when NODE_ENV is 'development' and
\* not at all otherwise, however many development-mode calls came before.
C14_PrependLeavesCaches ==
    /\ [](\A r \in 1..Len(resolvedManifest) :
            resolvedManifest[r] # <<>> => resolvedManifest[r][1] \in Loaded)
    /\ [](\A c \in Calls : (Settled(c) /\ calls[c].res[1].ok) =>
            calls[c].res[1].value \in Loaded)
    /\ [][\A p \in Reads : reads[p].state # "pending" => reads'[p] = reads[p]]_vars
    /\ [][\A c \in Calls :
            (calls[c].pc = "awaitManifest" /\ calls'[c].pc = "done") =>
                /\ UNCHANGED <<resolvedManifest, reads, consolidatedManifestPromise>>
                /\ (calls[c].kind = "scripts" /\ calls'[c].out[1].ok) =>
                       VendorCount(calls[c].inst, calls'[c].out[1].value) =
                           (IF nodeEnv = "development" THEN 1 ELSE 0)
                /\ (calls[c].kind = "styles" /\ calls'[c].out[1].ok) =>
                       VendorCount(calls[c].inst, calls'[c].out[1].value) = 0]_vars

\* A scripts() call returned the vendor asset and the js list; a later call
\* for the same entrypoint, served from the instance's cache, returned the js
\* list alone, and the cached manifest is still the loaded one.
C14_Witness ==
    \E c, d \in Calls :
        /\ c < d
        /\ ScriptsFound(c) /\ ScriptsFound(d)
        /\ calls[c].inst = calls[d].inst /\ calls[c].name = calls[d].name
        /\ calls[d].p = 0
        /\ VendorCount(calls[c].inst, calls[c].out[1].value) = 1
        /\ calls[d].out[1].value = EntryOf(c).js
        /\ resolvedManifest[calls[c].inst][1] \in Loaded

\* ------------------------------------------------------------------ C15
\* C15: a styles() call that finds its entrypoint returns that entrypoint's
\* css list as it stands in the manifest, without the vendor asset, and the
\* manifest it reads is the one the scripts() calls of the same instance read.
C15_StylesSameManifest ==
    /\ \A d \in Calls :
           (calls[d].kind = "styles" /\ Looked(d) /\ calls[d].name \in Names(d)) =>
               /\ calls[d].out[1] = Success(EntryOf(d).css)
               /\ VendorCount(calls[d].inst, calls[d].out[1].value) = 0
    /\ \A c, d \in Calls :
           (/\ calls[c].kind = "scripts" /\ calls[d].kind = "styles"
            /\ calls[c].inst = calls[d].inst
            /\ Settled(c) /\ Settled(d)
            /\ calls[c].res[1].ok /\ calls[d].res[1].ok) =>
               calls[d].res[1].value = calls[c].res[1].value

\* ------------------------------------------------------------------ C16
\* C16: once this.resolvedManifest of an instance is set, no step changes it,
\* whatever the interleaving of calls, read completions, hook calls and file
\* changes; and two calls on one instance are never given different manifests.
C16_ResolvedManifestStable ==
    /\ [][\A r \in 1..Len(resolvedManifest) :
            resolvedManifest[r] # <<>> => resolvedManifest'[r] = resolvedManifest[r]]_vars
    /\ [](\A c, d \in Calls :
            (/\ calls[c].inst = calls[d].inst
             /\ Settled(c) /\ Settled(d)
             /\ calls[c].res[1].ok /\ calls[d].res[1].ok) =>
                calls[c].res[1].value = calls[d].res[1].value)

\* ------------------------------------------------------------------ C17
\* Read p has failed: its promise rejected, or it yielded the empty document.
ReadFailed(p) ==
    \/ reads[p].state = "rejected"
    \/ reads[p].state = "fulfilled" /\ reads[p].value = <<>>

\* The error of a failed read, as a call waiting on it gets it.
FailureOf(p) ==
    IF reads[p].state = "rejected" THEN Failure("readJson failed")
    ELSE Failure("No builds were found.")

\* Every call that waited on a failed read got, and returned, that failure.
WaitersFail ==
    \A c \in Calls : (calls[c].p # 0 /\ ReadFailed(calls[c].p)) =>
        /\ Settled(c) => calls[c].res[1] = FailureOf(calls[c].p)
        /\ calls[c].pc = "done" => calls[c].out[1] = FailureOf(calls[c].p)

\* C17 (as claimed): once a read has failed and internalOnlyClearCache has
\* not been called since, a call starts no new read, a call by an instance
\* without a resolved manifest waits on the failed read, and every waiter on
\* the failed read fails with its failure.
C17_NoRetryAfterFailure ==
    /\ [][\A p \in Reads :
            (ReadFailed(p) /\ reads[p].at = nclears /\ CallStarts) =>
                /\ reads' = reads
                /\ resolvedManifest[NewestCall.inst] = <<>> => NewestCall.p = p]_vars
    /\ []WaitersFail

\* C17 (amended): while the read held in the module-level cache has failed, a
\* step other than internalOnlyClearCache leaves the cache holding it and
\* starts no read, a call by an instance without a resolved manifest joins the
\* failed read, and every waiter on a failed read fails with its failure.
C17_NoRetryOfCachedFailure ==
    /\ [][(consolidatedManifestPromise # 0 /\ ReadFailed(consolidatedManifestPromise)
            /\ ~HookCalled) =>
            /\ consolidatedManifestPromise' = consolidatedManifestPromise
            /\ Len(reads') = Len(reads)
            /\ (CallStarts /\ resolvedManifest[NewestCall.inst] = <<>>) =>
                   /\ NewestCall.p = consolidatedManifestPromise
                   /\ ~NewestCall.started]_vars
    /\ []WaitersFail

\* The cached read rejected; the call that started it and a call made by
\* another instance after the rejection have both failed with its failure,
\* and no second read exists.
C17_Witness ==
    \E c, d \in Calls :
        /\ c < d /\ calls[c].inst # calls[d].inst
        /\ consolidatedManifestPromise = 1 /\ Len(reads) = 1
        /\ reads[1].state = "rejected"
        /\ calls[c].pc = "done" /\ calls[d].pc = "done"
        /\ calls[c].out[1] = Failure("readJson failed")
        /\ calls[d].out[1] = Failure("readJson failed")

\* ------------------------------------------------------------------ C18
\* C18: a step changes consolidatedManifestPromise only if it is a call of
\* internalOnlyClearCache, which empties it, or a call that finds it empty and
\* starts a read, which stores that read.  The completion of a read, stale or
\* not, the continuation of a call, whether it ends in a load error, in a
\* lookup error or in a result, and a call served from the instance's cache
\* leave it unchanged.
C18_CacheWrittenByLoadAndHook ==
    /\ [][consolidatedManifestPromise' # consolidatedManifestPromise =>
            \/ HookCalled /\ consolidatedManifestPromise' = 0
            \/ /\ CallStarts
               /\ consolidatedManifestPromise = 0
               /\ resolvedManifest[NewestCall.inst] = <<>>
               /\ Len(reads') = Len(reads) + 1
               /\ consolidatedManifestPromise' = Len(reads')]_vars
    /\ [][(\E p \in Reads : reads'[p] # reads[p]) =>
            UNCHANGED consolidatedManifestPromise]_vars
    /\ [][(\E c \in Calls : calls'[c] # calls[c]) =>
            UNCHANGED consolidatedManifestPromise]_vars
    /\ [][(CallStarts /\ NewestCall.p = 0) =>
            UNCHANGED consolidatedManifestPromise]_vars

\* Read 1, started before the hook was called, has settled after it, while
\* the cache holds read 2, still pending.
C18_Witness ==
    /\ Len(reads) = 2
    /\ consolidatedManifestPromise = 2
    /\ reads[2].state = "pending"
    /\ reads[1].state # "pending" /\ reads[1].at = 1
    /\ \E c \in Calls : calls[c].p = 1 /\ calls[c].epoch = 0

\* ------------------------------------------------------------------ C19
\* The call has completed: its promise settled with a list or with an error.
Completed(c) == c \in Calls /\ calls[c].pc = "done" /\ Len(calls[c].out) = 1

\* C19: provided every started read eventually settles, every scripts() or
\* styles() call eventually completes, with an asset list or with an error,
\* whatever other calls, hook calls and file changes are interleaved.  The read
\* a call waits on is fixed when the call is made, and the call can proceed as
\* soon as that read has settled, whatever the state of any other read.
C19_CallsTerminate ==
    /\ \A c \in 1..MaxCalls : (c \in Calls) ~> Completed(c)
    /\ [][\A c \in Calls : calls'[c].p = calls[c].p /\ calls'[c].inst = calls[c].inst]_vars
    /\ [](\A c \in Calls :
            /\ calls[c].pc = "awaitLoad" => calls[c].p \in Reads
            /\ (calls[c].pc = "awaitLoad" /\ reads[calls[c].p].state # "pending") =>
                   ENABLED ResumeResolve(c)
            /\ calls[c].pc = "awaitManifest" => ENABLED FinishCall(c))

\* Every call made has completed: one that waited on a read detached by the
\* hook, with that read's failure, and one that waited on the read started
\* after the hook, with a list.
C19_Witness ==
    /\ Len(calls) = MaxCalls
    /\ \A c \in Calls : Completed(c)
    /\ \E c, d \in Calls :
           /\ calls[c].p # 0 /\ calls[d].p # 0 /\ calls[c].p # calls[d].p
           /\ ~calls[c].out[1].ok
           /\ calls[d].out[1].ok

====
